---- MODULE Spec2Model ----
(***************************************************************************)
(* Model of the predictive-maintenance consumer: the sliding window store, *)
(* the regression engine, the sensor trend analyzer and the machine        *)
(* aggregator (analytics.go), and the consumer program that wires them to  *)
(* the message queue, the 10 second ticker and the shutdown signal         *)
(* (consumer.go).                                                          *)
(*                                                                         *)
(* Spec     : the analytics engine called concurrently, producers calling  *)
(*            AddDataPoint while an analysis task calls AnalyzeSensorTrend *)
(*            and AnalyzeMachineTrends, one step per statement that        *)
(*            touches shared state.                                        *)
(* SpecReg  : CalculateLinearRegression applied to bounded inputs.         *)
(* SpecTrend: the analysis AnalyzeSensorTrend makes of a window, applied   *)
(*            to bounded windows and limits.                               *)
(* SpecAgg  : the aggregation AnalyzeMachineTrends makes of the analyses   *)
(*            it collected, applied to bounded sequences of analyses.      *)
(* SpecStore: AnalyzeMachineTrends on a store, without and with one more   *)
(*            sensor.                                                      *)
(* SpecMain : main() of consumer.go, consumer goroutine, ticker goroutine  *)
(*            and shutdown path, calling the same engine steps.            *)
(***************************************************************************)
EXTENDS Integers, Sequences, FiniteSets, TLC

(***************************************************************************)
(* Bounds of the model.                                                    *)
(***************************************************************************)
\* Capacity of a window. The code sets MaxPoints: 100 (analytics.go line 58);
\* the model runs the same code with a scaled capacity so that a full window
\* and its first evictions are within reach of the checker.
MaxPoints == 3
\* Number of AddDataPoint calls made by the producers of Spec.
MaxCalls == 4
\* Longest argument of CalculateLinearRegression in SpecReg.
MaxRegLen == 3
\* Deliveries the broker makes in SpecMain.
MaxMsgs == 3
\* Longest window analysed in SpecTrend.
MaxTrendLen == 3
\* Largest number of sensors of one machine in SpecAgg and SpecStore.
MaxSensors == 3

(***************************************************************************)
(* Program constants.                                                      *)
(***************************************************************************)
\* analytics.go line 126: len(trendData.Values) < 3
MinPoints == 3

(***************************************************************************)
(* float64.  A value is NaN, +Inf, -Inf or a finite number kept as a       *)
(* reduced fraction n/d, d > 0.  Arithmetic follows IEEE 754 for the       *)
(* special values; finite results are exact (no rounding), which is what   *)
(* float64 gives for the small integers the model feeds in, up to the      *)
(* rounding of a quotient.                                                 *)
(***************************************************************************)
Abs(i) == IF i < 0 THEN -i ELSE i

Sign(i) == IF i < 0 THEN -1 ELSE IF i > 0 THEN 1 ELSE 0

RECURSIVE GCD(_, _)
GCD(a, b) == IF b = 0 THEN a ELSE GCD(b, a % b)

NaN == [k |-> "nan", n |-> 0, d |-> 1]

Inf(s) == [k |-> "inf", n |-> s, d |-> 1]

Frac(n, d) ==
    LET g == GCD(Abs(n), Abs(d))
        s == IF d < 0 THEN -1 ELSE 1
    IN  [k |-> "fin", n |-> (s * n) \div g, d |-> (s * d) \div g]

F(i) == [k |-> "fin", n |-> i, d |-> 1]

IsNaN(a) == a.k = "nan"

IsInf(a) == a.k = "inf"

IsFinite(a) == a.k = "fin"

FNeg(a) == IF a.k = "nan" THEN NaN ELSE [a EXCEPT !.n = -a.n]

FAdd(a, b) ==
    IF a.k = "nan" \/ b.k = "nan" THEN NaN
    ELSE IF a.k = "inf" /\ b.k = "inf" THEN (IF a.n = b.n THEN a ELSE NaN)
    ELSE IF a.k = "inf" THEN a
    ELSE IF b.k = "inf" THEN b
    ELSE Frac(a.n * b.d + b.n * a.d, a.d * b.d)

FSub(a, b) == FAdd(a, FNeg(b))

FMul(a, b) ==
    IF a.k = "nan" \/ b.k = "nan" THEN NaN
    ELSE IF a.k = "inf" \/ b.k = "inf"
         THEN (IF a.n = 0 \/ b.n = 0 THEN NaN ELSE Inf(Sign(a.n) * Sign(b.n)))
    ELSE Frac(a.n * b.n, a.d * b.d)

\* x/0 is +-Inf for x # 0 and NaN for x = 0 (a zero divisor is +0 here: the
\* only divisor of the code that can be zero is a difference a - a).
FDiv(a, b) ==
    IF a.k = "nan" \/ b.k = "nan" THEN NaN
    ELSE IF a.k = "inf" /\ b.k = "inf" THEN NaN
    ELSE IF a.k = "inf" THEN Inf(IF b.n < 0 THEN -a.n ELSE a.n)
    ELSE IF b.k = "inf" THEN F(0)
    ELSE IF b.n = 0 THEN (IF a.n = 0 THEN NaN ELSE Inf(Sign(a.n)))
    ELSE Frac(a.n * b.d, a.d * b.n)

\* a < b; every comparison with NaN is false.
FLt(a, b) ==
    IF a.k = "nan" \/ b.k = "nan" THEN FALSE
    ELSE IF a.k = "inf" THEN a.n < 0 /\ ~(b.k = "inf" /\ b.n < 0)
    ELSE IF b.k = "inf" THEN b.n > 0
    ELSE a.n * b.d < b.n * a.d

FGt(a, b) == FLt(b, a)

FEq(a, b) == a.k # "nan" /\ b.k # "nan" /\ a = b

\* math.Abs
FAbs(a) == IF a.k = "nan" THEN NaN ELSE [a EXCEPT !.n = Abs(a.n)]

(***************************************************************************)
(* Sensor identifiers and machine names are strings, kept as sequences of  *)
(* characters so that slicing and splitting are computed as the code does. *)
(***************************************************************************)
SensorA == <<"G", "2", ":", "s">>

SensorB == <<"G", "2", "0", ":", "s">>

Sensors == {SensorA, SensorB}

MachineA == <<"G", "2">>

MachineB == <<"G", "2", "0">>

Machines == {MachineA, MachineB}

\* operationalLimits, loaded once by loadOperationalLimits and read-only after.
operationalLimits ==
    [s \in Sensors |-> [SensorName |-> s, OperationalHigh |-> 10, OperationalLow |-> 0]]

\* The (timestamp, value) pairs a caller of AddDataPoint may pass.  The second
\* pair carries the earlier timestamp, so calls can arrive out of time order.
Points == {<<1, 1>>, <<0, 2>>}

(***************************************************************************)
(* CalculateLinearRegression(x, y []float64) (slope, intercept, rSquared)  *)
(* x and y are sequences of float64 of equal length.                       *)
(***************************************************************************)
RECURSIVE FSum(_)
FSum(s) == IF s = <<>> THEN F(0) ELSE FAdd(FSum(SubSeq(s, 1, Len(s) - 1)), s[Len(s)])

\* the element-wise products x[i] * y[i]
Products(x, y) == [i \in 1..Len(x) |-> FMul(x[i], y[i])]

\* line 94: (n*sumXY - sumX*sumY) / (n*sumXX - sumX*sumX)
SlopeOf(n, sumX, sumY, sumXY, sumXX) ==
    FDiv(FSub(FMul(n, sumXY), FMul(sumX, sumY)),
         FSub(FMul(n, sumXX), FMul(sumX, sumX)))

CalculateLinearRegression(x, y) ==
    LET n == F(Len(x)) IN
    IF FLt(n, F(2))                                             \* lines 78-81
    THEN [slope |-> F(0), intercept |-> F(0), rSquared |-> F(0)]
    ELSE
      LET sumX  == FSum(x)                                      \* lines 83-91
          sumY  == FSum(y)
          sumXY == FSum(Products(x, y))
          sumXX == FSum(Products(x, x))
          slope == SlopeOf(n, sumX, sumY, sumXY, sumXX)         \* line 94
          intercept == FDiv(FSub(sumY, FMul(slope, sumX)), n)   \* line 95
          meanY == FDiv(sumY, n)                                \* line 98
          dev == [i \in 1..Len(x) |-> FSub(y[i], meanY)]
          res == [i \in 1..Len(x) |->
                     FSub(y[i], FAdd(FMul(slope, x[i]), intercept))]
          ssTotal == FSum(Products(dev, dev))                   \* lines 99-104
          ssResidual == FSum(Products(res, res))
          rSquared == IF FGt(ssTotal, F(0))                     \* lines 106-108
                      THEN FSub(F(1), FDiv(ssResidual, ssTotal))
                      ELSE F(0)
      IN  [slope |-> slope, intercept |-> intercept, rSquared |-> rSquared]

(***************************************************************************)
(* AnalyzeSensorTrend, the computation made on the window once it is read  *)
(* (lines 130-233): time offsets, regression, forecasts, direction,        *)
(* confidence, health score, time to warning and time to critical.         *)
(***************************************************************************)
\* lines 131-137: x[i] = t.Sub(baseTime).Seconds(), baseTime = Timestamps[0]
Offsets(timestamps) == [i \in 1..Len(timestamps) |-> F(timestamps[i] - timestamps[1])]

Floats(values) == [i \in 1..Len(values) |-> F(values[i])]

\* lines 153-160
TrendDirectionOf(slope) ==
    IF FLt(FAbs(slope), Frac(1, 1000)) THEN "STABLE"
    ELSE IF FGt(slope, F(0)) THEN "INCREASING"
    ELSE "DECREASING"

\* lines 162-169
ConfidenceOfLowFirst(rSquared) ==
    IF FLt(rSquared, Frac(5, 10)) THEN "LOW"
    ELSE IF FLt(rSquared, Frac(8, 10)) THEN "MEDIUM"
    ELSE "HIGH"

ConfidenceOf(rSquared) ==
    IF FGt(rSquared, Frac(8, 10)) THEN "HIGH"
    ELSE IF FGt(rSquared, Frac(5, 10)) THEN "MEDIUM"
    ELSE "LOW"

\* math.Max and math.Min: NaN if an argument is NaN, otherwise the larger
\* (smaller), the infinities included
FMax(a, b) == IF a.k = "nan" \/ b.k = "nan" THEN NaN ELSE IF FLt(a, b) THEN b ELSE a

FMin(a, b) == IF a.k = "nan" \/ b.k = "nan" THEN NaN ELSE IF FLt(b, a) THEN b ELSE a

\* int(f) for a finite f inside the range of int: the fraction is dropped
\* (truncation toward zero).  Every quotient the analyzer converts is finite:
\* it divides a finite distance by a slope it has found to be > 0 or < 0.
IntOf(a) == Sign(a.n) * (Abs(a.n) \div a.d)

\* lines 172-180: the position of the latest value in the operational range
CurrentPercentage(currentValue, limit) ==
    LET rangeSpan == FSub(F(limit.OperationalHigh), F(limit.OperationalLow)) IN
    IF FGt(rangeSpan, F(0))
    THEN FMul(FDiv(FSub(currentValue, F(limit.OperationalLow)), rangeSpan), F(100))
    ELSE F(50)

\* line 207: math.Max(0, math.Min(100, healthScore))
ClampUnbounded(healthScore) == healthScore

Clamp(healthScore) == FMax(F(0), FMin(F(100), healthScore))

\* lines 184-207
HealthScoreOf(slope, currentPercentage, trendDirection) ==
    LET start == F(100)
        positioned ==                                           \* lines 187-191
            IF FLt(currentPercentage, F(20))
            THEN FSub(start, FMul(FSub(F(20), currentPercentage), F(2)))
            ELSE IF FGt(currentPercentage, F(80))
            THEN FSub(start, FMul(FSub(currentPercentage, F(80)), F(2)))
            ELSE start
        trended ==                                              \* lines 194-200
            IF FGt(slope, F(0)) /\ FGt(currentPercentage, F(50))
            THEN FSub(positioned, FMul(FAbs(slope), F(100)))
            ELSE IF FLt(slope, F(0)) /\ FLt(currentPercentage, F(50))
            THEN FSub(positioned, FMul(FAbs(slope), F(100)))
            ELSE positioned
        stabilised ==                                           \* lines 203-205
            IF trendDirection = "STABLE" THEN FAdd(trended, F(10)) ELSE trended
    IN  Clamp(stabilised)

\* lines 211, 217: limit.OperationalLow + (rangeSpan * 0.8), and * 0.2
WarningThresholdFromZero(limit, tenths) ==
    FMul(FSub(F(limit.OperationalHigh), F(limit.OperationalLow)), Frac(tenths, 10))

WarningThreshold(limit, tenths) ==
    FAdd(F(limit.OperationalLow),
         FMul(FSub(F(limit.OperationalHigh), F(limit.OperationalLow)), Frac(tenths, 10)))

\* lines 210-222; 0 is the value of a TimeToWarning that was never assigned
TimeToWarningOf(slope, currentPercentage, currentValue, limit) ==
    IF FGt(slope, F(0)) /\ FLt(currentPercentage, F(80))
    THEN IF FLt(currentValue, WarningThreshold(limit, 8))
         THEN IntOf(FDiv(FSub(WarningThreshold(limit, 8), currentValue), slope))
         ELSE 0
    ELSE IF FLt(slope, F(0)) /\ FGt(currentPercentage, F(20))
    THEN IF FGt(currentValue, WarningThreshold(limit, 2))
         THEN IntOf(FDiv(FSub(currentValue, WarningThreshold(limit, 2)), FAbs(slope)))
         ELSE 0
    ELSE 0

\* lines 225-231; 0 is the value of a TimeToCritical that was never assigned
TimeToCriticalOf(slope, currentValue, limit) ==
    IF FGt(slope, F(0)) /\ FLt(currentValue, F(limit.OperationalHigh))
    THEN IntOf(FDiv(FSub(F(limit.OperationalHigh), currentValue), slope))
    ELSE IF FLt(slope, F(0)) /\ FGt(currentValue, F(limit.OperationalLow))
    THEN IntOf(FDiv(FSub(currentValue, F(limit.OperationalLow)), FAbs(slope)))
    ELSE 0

TrendAnalysis(timestamps, values, limit) ==
    LET x == Offsets(timestamps)
        y == Floats(values)
        r == CalculateLinearRegression(x, y)                    \* line 140
        currentTime == x[Len(x)]                                \* line 149
        direction == TrendDirectionOf(r.slope)
        currentValue == y[Len(y)]                               \* line 173
        currentPercentage == CurrentPercentage(currentValue, limit)
    IN  [Slope |-> r.slope, Intercept |-> r.intercept, RSquared |-> r.rSquared,
         Prediction5Min  |-> FAdd(FMul(r.slope, FAdd(currentTime, F(300))), r.intercept),
         Prediction10Min |-> FAdd(FMul(r.slope, FAdd(currentTime, F(600))), r.intercept),
         TrendDirection |-> direction,
         Confidence |-> ConfidenceOf(r.rSquared),
         HealthScore |-> HealthScoreOf(r.slope, currentPercentage, direction),
         TimeToWarning |-> TimeToWarningOf(r.slope, currentPercentage, currentValue, limit),
         TimeToCritical |-> TimeToCriticalOf(r.slope, currentValue, limit)]

\* A *TrendAnalysis: nil, or a pointer to one analysis.
Nil == <<>>

Ref(a) == <<a>>

\* line 126: len(trendData.Values) < 3
InsufficientDataOffByOne(values) == Len(values) <= MinPoints

InsufficientData(values) == Len(values) < MinPoints

(***************************************************************************)
(* Machine membership.                                                     *)
(***************************************************************************)
\* analytics.go line 246:
\*   len(sensorName) > len(machineName) && sensorName[:len(machineName)] == machineName
BelongsTo(sensorName, machineName) ==
    /\ Len(sensorName) > Len(machineName)
    /\ SubSeq(sensorName, 1, Len(machineName)) = machineName

\* consumer.go lines 173-177: parts := strings.SplitN(sensorName, ":", 2);
\* machineName is parts[0] when there are two parts, "UNKNOWN" otherwise.
Unknown == <<"U", "N", "K", "N", "O", "W", "N">>

MachineOf(sensorName) ==
    LET colons == {i \in 1..Len(sensorName) : sensorName[i] = ":"}
    IN  IF colons = {} THEN Unknown
        ELSE LET first == CHOOSE i \in colons : \A j \in colons : i <= j
             IN  SubSeq(sensorName, 1, first - 1)

(***************************************************************************)
(* sync.RWMutex.  writer is the goroutine that is inside Lock (it holds    *)
(* the lock once held is TRUE, and is a pending writer before), readers    *)
(* counts the read locks held.  As in Go, a pending writer blocks new      *)
(* readers, and the writer proceeds when the last reader has left.         *)
(***************************************************************************)
NoProc == "none"

FreeMutex == [writer |-> NoProc, held |-> FALSE, readers |-> 0]

\* RLock returns at once iff no writer holds or waits for the lock.
CanRLockUnguarded(m) == TRUE

CanRLock(m) == m.writer = NoProc

\* Lock first excludes other writers ...
CanLockUnguarded(m) == TRUE

CanLock(m) == m.writer = NoProc

\* ... announces itself, and holds the lock as soon as no reader is left.
LockAnnounce(m, p) == [m EXCEPT !.writer = p, !.held = (m.readers = 0)]

LockAcquire(m) == [m EXCEPT !.held = TRUE]

Unlock(m) == [m EXCEPT !.writer = NoProc, !.held = FALSE]

RLock(m) == [m EXCEPT !.readers = @ + 1]

RUnlock(m) == [m EXCEPT !.readers = @ - 1]

(***************************************************************************)
(* State.                                                                  *)
(***************************************************************************)
Producers == {"p1", "p2"}

Analysts == {"a1"}

\* consumer.go: the consumer goroutine calls AddDataPoint; the ticker goroutine
\* and main call printAverageReport, which calls AnalyzeMachineTrends.
Consumer == "consumer"

ReportTasks == {"ticker", "main"}

Procs == Producers \cup Analysts \cup {Consumer} \cup ReportTasks

VARIABLES
    sensorTrends,   \* map sensor id -> pointer into heap (0 is nil)
    heap,           \* the SensorTrendData objects allocated so far
    trendMutex,     \* the global RWMutex
    pc,             \* position of each goroutine inside the engine
    add,            \* locals of AddDataPoint, per producer
    an,             \* locals of AnalyzeSensorTrend / AnalyzeMachineTrends, per analyst
    arrived,        \* history: per sensor, the points in the order the calls
                    \* entered AddDataPoint's critical section
    calls,          \* history: number of AddDataPoint calls made
    reg,            \* SpecReg: the arguments and the result of one regression
    trendCase,      \* SpecTrend: a window, a limit and the analysis made of them
    machineCase,    \* SpecAgg: qualifying analyses and the trend aggregated from them
    storeCase,      \* SpecStore: a machine's windows, one more window, and the
                    \* machine's trend without and with it
    mpc,            \* main: position in main()
    cpc,            \* consumer goroutine: position in its loop
    rpc,            \* per report task: position in printAverageReport
    msgs,           \* the deliveries channel returned by ch.Consume
    chClosed,       \* ch.Close() was called
    unacked,        \* a delivery is neither acknowledged nor rejected (prefetch 1)
    delivered,      \* number of deliveries made by the broker
    clock,          \* time.Now()
    aggregateMutex, \* the goroutine holding aggregateMutex, or NoProc
    sensorAggregates, \* map sensor id -> SensorAggregate
    con,            \* locals of the consumer goroutine and addReadingToAggregate
    rep,            \* locals of printAverageReport, per report task
    added,          \* history: deliveries aggregated since the last emitted report
    acked           \* history: those of them that were acknowledged

engineVars == <<sensorTrends, heap, trendMutex, pc, add, an, arrived, calls>>

regVars == <<reg, trendCase, machineCase, storeCase>>

mainVars == <<mpc, cpc, rpc, msgs, chClosed, unacked, delivered, clock,
              aggregateMutex, sensorAggregates, con, rep, added, acked>>

vars == <<engineVars, regVars, mainVars>>

NoAdd == [sensorName |-> <<>>, value |-> 0, timestamp |-> 0, trend |-> 0]

NoAn ==
    [entry |-> "", machineName |-> <<>>, sensorName |-> <<>>, todo |-> {},
     trendData |-> 0, rlocked |-> FALSE, timestamps |-> <<>>, values |-> <<>>,
     analysis |-> Nil, sensorAnalyses |-> <<>>, trend |-> Nil]

\* &SensorTrendData{Values: make(..., 0, 100), Timestamps: ..., MaxPoints: 100}
NewSensorTrendData ==
    [Values |-> <<>>, Timestamps |-> <<>>, MaxPoints |-> MaxPoints, mutex |-> FreeMutex]

NoReg == [x |-> <<>>, y |-> <<>>, out |-> Nil]

NoTrendCase ==
    [timestamps |-> <<>>, values |-> <<>>, limit |-> <<>>, done |-> FALSE, out |-> Nil]

NoMachineCase == [sensorAnalyses |-> <<>>, done |-> FALSE, out |-> Nil]

NoStoreCase ==
    [windows |-> <<>>, extra |-> <<>>, pass |-> 1, next |-> 1, analysed |-> FALSE,
     analysis |-> Nil, sensorAnalyses |-> <<>>, done |-> FALSE,
     without |-> Nil, with |-> Nil]

\* the specifications of single functions are idle in the others
InitCases ==
    /\ trendCase = NoTrendCase
    /\ machineCase = NoMachineCase
    /\ storeCase = NoStoreCase

InitEngine ==
    /\ sensorTrends = [s \in Sensors |-> 0]
    /\ heap = <<>>
    /\ trendMutex = FreeMutex
    /\ pc = [p \in Procs |-> "idle"]
    /\ add = [p \in Producers \cup {Consumer} |-> NoAdd]
    /\ an = [a \in Analysts \cup ReportTasks |-> NoAn]
    /\ arrived = [s \in Sensors |-> <<>>]
    /\ calls = 0

NoDelivery == [id |-> 0, body |-> [ok |-> FALSE, readings |-> <<>>]]

NoCon == [d |-> NoDelivery, todo |-> {}, currentTime |-> 0]

NoRep == [machineStats |-> <<>>, todo |-> {}, machineName |-> <<>>, out |-> <<>>]

\* main() up to line 486: limits loaded, initAnalytics(), sensorAggregates made,
\* queue consumed, ticker and consumer goroutines started.
InitMain ==
    /\ mpc = "wait_sig"
    /\ cpc = "recv"
    /\ rpc = [t \in ReportTasks |-> "idle"]
    /\ msgs = <<>>
    /\ chClosed = FALSE
    /\ unacked = FALSE
    /\ delivered = 0
    /\ clock = 0
    /\ aggregateMutex = NoProc
    /\ sensorAggregates = <<>>
    /\ con = NoCon
    /\ rep = [t \in ReportTasks |-> NoRep]
    /\ added = {}
    /\ acked = {}

Init ==
    /\ InitEngine
    /\ reg = NoReg
    /\ InitCases
    /\ InitMain

(***************************************************************************)
(* AddDataPoint(sensorName, value, timestamp)                              *)
(***************************************************************************)
\* A producer calls AddDataPoint.
CallAddDataPoint(p) ==
    /\ pc[p] = "idle"
    /\ calls < MaxCalls
    /\ \E s \in Sensors, pt \in Points :
          add' = [add EXCEPT ![p] =
                     [sensorName |-> s, value |-> pt[2], timestamp |-> pt[1], trend |-> 0]]
    /\ calls' = calls + 1
    /\ pc' = [pc EXCEPT ![p] = "add_lock"]
    /\ UNCHANGED <<sensorTrends, heap, trendMutex, an, arrived, regVars, mainVars>>

Arrive(p) == [arrived EXCEPT ![add[p].sensorName] =
                 Append(@, <<add[p].timestamp, add[p].value>>)]

\* line 51: trendMutex.Lock()
AddLock(p) ==
    /\ pc[p] = "add_lock"
    /\ CanLock(trendMutex)
    /\ trendMutex' = LockAnnounce(trendMutex, p)
    /\ IF trendMutex.readers = 0
       THEN pc' = [pc EXCEPT ![p] = "add_check"] /\ arrived' = Arrive(p)
       ELSE pc' = [pc EXCEPT ![p] = "add_locking"] /\ UNCHANGED arrived
    /\ UNCHANGED <<sensorTrends, heap, add, an, calls, regVars, mainVars>>

\* line 51, the pending writer is let in by the last reader leaving
AddLockAcquire(p) ==
    /\ pc[p] = "add_locking"
    /\ trendMutex.readers = 0
    /\ trendMutex' = LockAcquire(trendMutex)
    /\ pc' = [pc EXCEPT ![p] = "add_check"]
    /\ arrived' = Arrive(p)
    /\ UNCHANGED <<sensorTrends, heap, add, an, calls, regVars, mainVars>>

\* line 54: if sensorTrends[sensorName] == nil
AddCheck(p) ==
    /\ pc[p] = "add_check"
    /\ pc' = [pc EXCEPT ![p] =
                 IF sensorTrends[add[p].sensorName] = 0 THEN "add_create" ELSE "add_load"]
    /\ UNCHANGED <<sensorTrends, heap, trendMutex, add, an, arrived, calls, regVars, mainVars>>

\* lines 55-59: sensorTrends[sensorName] = &SensorTrendData{...}
AddCreate(p) ==
    /\ pc[p] = "add_create"
    /\ heap' = Append(heap, NewSensorTrendData)
    /\ sensorTrends' = [sensorTrends EXCEPT ![add[p].sensorName] = Len(heap) + 1]
    /\ pc' = [pc EXCEPT ![p] = "add_load"]
    /\ UNCHANGED <<trendMutex, add, an, arrived, calls, regVars, mainVars>>

\* line 62: trend := sensorTrends[sensorName]
AddLoad(p) ==
    /\ pc[p] = "add_load"
    /\ add' = [add EXCEPT ![p].trend = sensorTrends[add[p].sensorName]]
    /\ pc' = [pc EXCEPT ![p] = "add_wlock"]
    /\ UNCHANGED <<sensorTrends, heap, trendMutex, an, arrived, calls, regVars, mainVars>>

\* line 63: trend.mutex.Lock()
AddWindowLock(p) ==
    LET t == add[p].trend IN
    /\ pc[p] = "add_wlock"
    /\ CanLock(heap[t].mutex)
    /\ heap' = [heap EXCEPT ![t].mutex = LockAnnounce(@, p)]
    /\ pc' = [pc EXCEPT ![p] =
                 IF heap[t].mutex.readers = 0 THEN "add_values" ELSE "add_wlocking"]
    /\ UNCHANGED <<sensorTrends, trendMutex, add, an, arrived, calls, regVars, mainVars>>

\* line 63, the pending writer is let in by the last reader leaving
AddWindowLockAcquire(p) ==
    LET t == add[p].trend IN
    /\ pc[p] = "add_wlocking"
    /\ heap[t].mutex.readers = 0
    /\ heap' = [heap EXCEPT ![t].mutex = LockAcquire(@)]
    /\ pc' = [pc EXCEPT ![p] = "add_values"]
    /\ UNCHANGED <<sensorTrends, trendMutex, add, an, arrived, calls, regVars, mainVars>>

\* line 66: trend.Values = append(trend.Values, value)
AddValues(p) ==
    LET t == add[p].trend IN
    /\ pc[p] = "add_values"
    /\ heap' = [heap EXCEPT ![t].Values = Append(@, add[p].value)]
    /\ pc' = [pc EXCEPT ![p] = "add_timestamps"]
    /\ UNCHANGED <<sensorTrends, trendMutex, add, an, arrived, calls, regVars, mainVars>>

\* line 67: trend.Timestamps = append(trend.Timestamps, timestamp)
AddTimestamps(p) ==
    LET t == add[p].trend IN
    /\ pc[p] = "add_timestamps"
    /\ heap' = [heap EXCEPT ![t].Timestamps = Append(@, add[p].timestamp)]
    /\ pc' = [pc EXCEPT ![p] = "add_cap"]
    /\ UNCHANGED <<sensorTrends, trendMutex, add, an, arrived, calls, regVars, mainVars>>

\* s[1:]
DropNewest(s) == SubSeq(s, 1, Len(s) - 1)

DropOldest(s) == Tail(s)

\* line 70: len(trend.Values) > trend.MaxPoints
OverCapacityOffByOne(w) == Len(w.Values) > w.MaxPoints + 1

OverCapacity(w) == Len(w.Values) > w.MaxPoints

\* lines 70-71: if len(trend.Values) > trend.MaxPoints { trend.Values = trend.Values[1:]
AddEvictValues(p) ==
    LET t == add[p].trend IN
    /\ pc[p] = "add_cap"
    /\ IF OverCapacity(heap[t])
       THEN /\ heap' = [heap EXCEPT ![t].Values = DropOldest(@)]
            /\ pc' = [pc EXCEPT ![p] = "add_evict"]
       ELSE /\ pc' = [pc EXCEPT ![p] = "add_wunlock"]
            /\ UNCHANGED heap
    /\ UNCHANGED <<sensorTrends, trendMutex, add, an, arrived, calls, regVars, mainVars>>

\* line 72: trend.Timestamps = trend.Timestamps[1:]
AddEvictTimestamps(p) ==
    LET t == add[p].trend IN
    /\ pc[p] = "add_evict"
    /\ heap' = [heap EXCEPT ![t].Timestamps = DropOldest(@)]
    /\ pc' = [pc EXCEPT ![p] = "add_wunlock"]
    /\ UNCHANGED <<sensorTrends, trendMutex, add, an, arrived, calls, regVars, mainVars>>

\* line 64, deferred: trend.mutex.Unlock()
AddWindowUnlock(p) ==
    LET t == add[p].trend IN
    /\ pc[p] = "add_wunlock"
    /\ heap' = [heap EXCEPT ![t].mutex = Unlock(@)]
    /\ pc' = [pc EXCEPT ![p] = "add_unlock"]
    /\ UNCHANGED <<sensorTrends, trendMutex, add, an, arrived, calls, regVars, mainVars>>

\* line 52, deferred: trendMutex.Unlock(); AddDataPoint returns
AddUnlock(p) ==
    /\ pc[p] = "add_unlock"
    /\ trendMutex' = Unlock(trendMutex)
    /\ pc' = [pc EXCEPT ![p] = "idle"]
    /\ add' = [add EXCEPT ![p] = NoAdd]
    /\ UNCHANGED <<sensorTrends, heap, an, arrived, calls, regVars, mainVars>>

AddDataPoint(p) ==
    \/ AddLock(p)
    \/ AddLockAcquire(p)
    \/ AddCheck(p)
    \/ AddCreate(p)
    \/ AddLoad(p)
    \/ AddWindowLock(p)
    \/ AddWindowLockAcquire(p)
    \/ AddValues(p)
    \/ AddTimestamps(p)
    \/ AddEvictValues(p)
    \/ AddEvictTimestamps(p)
    \/ AddWindowUnlock(p)
    \/ AddUnlock(p)

(***************************************************************************)
(* AnalyzeSensorTrend(sensorName, limit)                                   *)
(***************************************************************************)
\* The analysis task calls AnalyzeSensorTrend itself, with the sensor's limit.
CallAnalyzeSensorTrend(a) ==
    /\ pc[a] = "idle"
    /\ \E s \in Sensors :
          an' = [an EXCEPT ![a] = [NoAn EXCEPT !.entry = "sensor", !.sensorName = s]]
    /\ pc' = [pc EXCEPT ![a] = "ast_rlock"]
    /\ UNCHANGED <<sensorTrends, heap, trendMutex, add, arrived, calls, regVars, mainVars>>

\* line 115: trendMutex.RLock()
AstRLock(a) ==
    /\ pc[a] = "ast_rlock"
    /\ CanRLock(trendMutex)
    /\ trendMutex' = RLock(trendMutex)
    /\ pc' = [pc EXCEPT ![a] = "ast_lookup"]
    /\ UNCHANGED <<sensorTrends, heap, add, an, arrived, calls, regVars, mainVars>>

\* line 116: trendData, exists := sensorTrends[sensorName]
AstLookup(a) ==
    /\ pc[a] = "ast_lookup"
    /\ an' = [an EXCEPT ![a].trendData = sensorTrends[an[a].sensorName]]
    /\ pc' = [pc EXCEPT ![a] = "ast_runlock"]
    /\ UNCHANGED <<sensorTrends, heap, trendMutex, add, arrived, calls, regVars, mainVars>>

\* lines 117-121: trendMutex.RUnlock(); if !exists || trendData == nil { return nil }
AstRUnlock(a) ==
    /\ pc[a] = "ast_runlock"
    /\ trendMutex' = RUnlock(trendMutex)
    /\ pc' = [pc EXCEPT ![a] = IF an[a].trendData = 0 THEN "ast_ret" ELSE "ast_wrlock"]
    /\ UNCHANGED <<sensorTrends, heap, add, an, arrived, calls, regVars, mainVars>>

\* line 123: trendData.mutex.RLock()
AstWindowRLock(a) ==
    LET t == an[a].trendData IN
    /\ pc[a] = "ast_wrlock"
    /\ CanRLock(heap[t].mutex)
    /\ heap' = [heap EXCEPT ![t].mutex = RLock(@)]
    /\ an' = [an EXCEPT ![a].rlocked = TRUE]
    /\ pc' = [pc EXCEPT ![a] = "ast_len"]
    /\ UNCHANGED <<sensorTrends, trendMutex, add, arrived, calls, regVars, mainVars>>

\* lines 126-128: if len(trendData.Values) < 3 { return nil }
AstLen(a) ==
    LET t == an[a].trendData IN
    /\ pc[a] = "ast_len"
    /\ pc' = [pc EXCEPT ![a] =
                 IF InsufficientData(heap[t].Values) THEN "ast_ret" ELSE "ast_timestamps"]
    /\ UNCHANGED <<sensorTrends, heap, trendMutex, add, an, arrived, calls, regVars, mainVars>>

\* lines 131-137: the loop over trendData.Timestamps
AstTimestamps(a) ==
    LET t == an[a].trendData IN
    /\ pc[a] = "ast_timestamps"
    /\ an' = [an EXCEPT ![a].timestamps = heap[t].Timestamps]
    /\ pc' = [pc EXCEPT ![a] = "ast_values"]
    /\ UNCHANGED <<sensorTrends, heap, trendMutex, add, arrived, calls, regVars, mainVars>>

\* lines 132, 140: y := trendData.Values, read by the regression
AstValues(a) ==
    LET t == an[a].trendData IN
    /\ pc[a] = "ast_values"
    /\ an' = [an EXCEPT ![a].values = heap[t].Values]
    /\ pc' = [pc EXCEPT ![a] = "ast_compute"]
    /\ UNCHANGED <<sensorTrends, heap, trendMutex, add, arrived, calls, regVars, mainVars>>

\* lines 140-233: the analysis of what was read
AstCompute(a) ==
    /\ pc[a] = "ast_compute"
    /\ an' = [an EXCEPT ![a].analysis =
                 Ref(TrendAnalysis(an[a].timestamps, an[a].values,
                                   operationalLimits[an[a].sensorName]))]
    /\ pc' = [pc EXCEPT ![a] = "ast_ret"]
    /\ UNCHANGED <<sensorTrends, heap, trendMutex, add, arrived, calls, regVars, mainVars>>

\* line 249: analysis != nil && analysis.Confidence != "LOW"
Qualifies(analysis) == analysis # Nil /\ analysis[1].Confidence # "LOW"

\* return, with the deferred trendData.mutex.RUnlock() of line 124 when the
\* function got that far.  Called by AnalyzeMachineTrends, the result is
\* collected by lines 249-257.
AstReturn(a) ==
    LET t == an[a].trendData
        r == an[a].analysis
    IN
    /\ pc[a] = "ast_ret"
    /\ IF an[a].rlocked
       THEN heap' = [heap EXCEPT ![t].mutex = RUnlock(@)]
       ELSE UNCHANGED heap
    /\ IF an[a].entry = "sensor"
       THEN /\ pc' = [pc EXCEPT ![a] = "idle"]
            /\ an' = [an EXCEPT ![a] = NoAn]
       ELSE /\ pc' = [pc EXCEPT ![a] = "amt_loop"]
            /\ an' = [an EXCEPT ![a] =
                         [@ EXCEPT !.trendData = 0, !.rlocked = FALSE,
                                   !.timestamps = <<>>, !.values = <<>>,
                                   !.analysis = Nil, !.sensorName = <<>>,
                                   !.sensorAnalyses =
                                       IF Qualifies(r)
                                       THEN Append(@, [sensorName |-> an[a].sensorName,
                                                       analysis |-> r[1]])
                                       ELSE @]]
    /\ UNCHANGED <<sensorTrends, trendMutex, add, arrived, calls, regVars, mainVars>>

AnalyzeSensorTrend(a) ==
    \/ AstRLock(a)
    \/ AstLookup(a)
    \/ AstRUnlock(a)
    \/ AstWindowRLock(a)
    \/ AstLen(a)
    \/ AstTimestamps(a)
    \/ AstValues(a)
    \/ AstCompute(a)
    \/ AstReturn(a)

(***************************************************************************)
(* AnalyzeMachineTrends(machineName, machineStats)                         *)
(***************************************************************************)
\* lines 314-328
MachineConfidence(sensorAnalyses) ==
    LET highConfCount ==
            Cardinality({i \in 1..Len(sensorAnalyses) :
                            sensorAnalyses[i].analysis.Confidence = "HIGH"})
    IN  IF highConfCount > Len(sensorAnalyses) \div 2 THEN "HIGH"
        ELSE IF highConfCount > Len(sensorAnalyses) \div 4 THEN "MEDIUM"
        ELSE "LOW"

\* line 303: math.MaxInt32
MaxInt32 == 2147483647

\* lines 252-255: sensorsAtRisk++ for 0 < TimeToWarning < 600
SensorsAtRiskOf(sensorAnalyses) ==
    Cardinality({i \in 1..Len(sensorAnalyses) :
                    /\ sensorAnalyses[i].analysis.TimeToWarning > 0
                    /\ sensorAnalyses[i].analysis.TimeToWarning < 600})

\* lines 271-276: the mean of healthScores
MachineHealthScore(sensorAnalyses) ==
    FDiv(FSum([i \in 1..Len(sensorAnalyses) |-> sensorAnalyses[i].analysis.HealthScore]),
         F(Len(sensorAnalyses)))

\* lines 279-300
OverallTrendImprovingFirst(sensorAnalyses) ==
    LET health(i) == sensorAnalyses[i].analysis.HealthScore
        degradingCount == Cardinality({i \in 1..Len(sensorAnalyses) : FLt(health(i), F(60))})
        improvingCount ==
            Cardinality({i \in 1..Len(sensorAnalyses) :
                            ~FLt(health(i), F(60)) /\ FGt(health(i), F(80))})
    IN  IF improvingCount > Len(sensorAnalyses) \div 3 THEN "IMPROVING"
        ELSE IF degradingCount > Len(sensorAnalyses) \div 3 THEN "DEGRADING"
        ELSE "STABLE"

OverallTrendOf(sensorAnalyses) ==
    LET health(i) == sensorAnalyses[i].analysis.HealthScore
        degradingCount == Cardinality({i \in 1..Len(sensorAnalyses) : FLt(health(i), F(60))})
        improvingCount ==
            Cardinality({i \in 1..Len(sensorAnalyses) :
                            ~FLt(health(i), F(60)) /\ FGt(health(i), F(80))})
    IN  IF degradingCount > Len(sensorAnalyses) \div 3 THEN "DEGRADING"
        ELSE IF improvingCount > Len(sensorAnalyses) \div 3 THEN "IMPROVING"
        ELSE "STABLE"

\* lines 303-308: minTimeToCritical after the first i analyses
RECURSIVE MinTimeToCritical(_, _)
MinTimeToCritical(sensorAnalyses, i) ==
    IF i = 0 THEN MaxInt32
    ELSE LET before == MinTimeToCritical(sensorAnalyses, i - 1)
             timeToCritical == sensorAnalyses[i].analysis.TimeToCritical
         IN  IF timeToCritical > 0 /\ timeToCritical < before
             THEN timeToCritical
             ELSE before

\* lines 310-312; 0 is the value of an EstimatedFailTime that was never assigned
EstimatedFailTimeOf(sensorAnalyses) ==
    LET minTimeToCritical == MinTimeToCritical(sensorAnalyses, Len(sensorAnalyses))
    IN  IF minTimeToCritical < MaxInt32 THEN minTimeToCritical ELSE 0

\* lines 263-330.  sensors records which sensors' analyses went into the trend.
MachineTrend(machineName, sensorAnalyses) ==
    IF Len(sensorAnalyses) = 0 THEN Nil
    ELSE Ref([MachineName |-> machineName,
              SensorsAtRisk |-> SensorsAtRiskOf(sensorAnalyses),
              HealthScore |-> MachineHealthScore(sensorAnalyses),
              OverallTrend |-> OverallTrendOf(sensorAnalyses),
              EstimatedFailTime |-> EstimatedFailTimeOf(sensorAnalyses),
              Confidence |-> MachineConfidence(sensorAnalyses),
              sensors |-> {sensorAnalyses[i].sensorName : i \in 1..Len(sensorAnalyses)}])

\* The analysis task calls AnalyzeMachineTrends.
CallAnalyzeMachineTrends(a) ==
    /\ pc[a] = "idle"
    /\ \E m \in Machines :
          an' = [an EXCEPT ![a] = [NoAn EXCEPT !.entry = "machine", !.machineName = m]]
    /\ pc' = [pc EXCEPT ![a] = "amt_rlock"]
    /\ UNCHANGED <<sensorTrends, heap, trendMutex, add, arrived, calls, regVars, mainVars>>

\* lines 243-244: trendMutex.RLock(); for sensorName := range sensorTrends
AmtRLock(a) ==
    /\ pc[a] = "amt_rlock"
    /\ CanRLock(trendMutex)
    /\ trendMutex' = RLock(trendMutex)
    /\ an' = [an EXCEPT ![a].todo = {s \in Sensors : sensorTrends[s] # 0}]
    /\ pc' = [pc EXCEPT ![a] = "amt_loop"]
    /\ UNCHANGED <<sensorTrends, heap, add, arrived, calls, regVars, mainVars>>

\* lines 244-248: the next sensor of the range, in the map's order (any);
\* a sensor of this machine with a registered limit is analysed.
AmtNext(a) ==
    /\ pc[a] = "amt_loop"
    /\ an[a].todo # {}
    /\ \E s \in an[a].todo :
          IF BelongsTo(s, an[a].machineName) /\ s \in DOMAIN operationalLimits
          THEN /\ an' = [an EXCEPT ![a].todo = @ \ {s}, ![a].sensorName = s]
               /\ pc' = [pc EXCEPT ![a] = "ast_rlock"]
          ELSE /\ an' = [an EXCEPT ![a].todo = @ \ {s}]
               /\ UNCHANGED pc
    /\ UNCHANGED <<sensorTrends, heap, trendMutex, add, arrived, calls, regVars, mainVars>>

\* line 261: trendMutex.RUnlock(), the range is exhausted
AmtRUnlock(a) ==
    /\ pc[a] = "amt_loop"
    /\ an[a].todo = {}
    /\ trendMutex' = RUnlock(trendMutex)
    /\ pc' = [pc EXCEPT ![a] = "amt_aggregate"]
    /\ UNCHANGED <<sensorTrends, heap, add, an, arrived, calls, regVars, mainVars>>

\* lines 263-330
AmtAggregate(a) ==
    /\ pc[a] = "amt_aggregate"
    /\ an' = [an EXCEPT ![a].trend = MachineTrend(an[a].machineName, an[a].sensorAnalyses)]
    /\ pc' = [pc EXCEPT ![a] = "amt_ret"]
    /\ UNCHANGED <<sensorTrends, heap, trendMutex, add, arrived, calls, regVars, mainVars>>

\* AnalyzeMachineTrends returns to the analysis task.
AmtReturn(a) ==
    /\ pc[a] = "amt_ret"
    /\ an' = [an EXCEPT ![a] = NoAn]
    /\ pc' = [pc EXCEPT ![a] = "idle"]
    /\ UNCHANGED <<sensorTrends, heap, trendMutex, add, arrived, calls, regVars, mainVars>>

AnalyzeMachineTrends(a) ==
    \/ AmtRLock(a)
    \/ AmtNext(a)
    \/ AmtRUnlock(a)
    \/ AmtAggregate(a)

Next ==
    \/ \E p \in Producers : CallAddDataPoint(p)
    \/ \E p \in Producers : AddDataPoint(p)
    \/ \E a \in Analysts : CallAnalyzeSensorTrend(a)
    \/ \E a \in Analysts : CallAnalyzeMachineTrends(a)
    \/ \E a \in Analysts : AnalyzeSensorTrend(a)
    \/ \E a \in Analysts : AnalyzeMachineTrends(a)
    \/ \E a \in Analysts : AmtReturn(a)

Spec == Init /\ [][Next]_vars

(***************************************************************************)
(* consumer.go: the deliveries, strconv.ParseFloat, addReadingToAggregate, *)
(* printAverageReport and main().                                          *)
(***************************************************************************)
\* a sensor that has no row in the limits file
SensorU == <<"G", "2", ":", "u">>

Digits == <<"0", "1", "2", "3", "4", "5", "6", "7", "8", "9">>

IsDigit(c) == \E i \in 1..10 : Digits[i] = c

DigitValue(c) == (CHOOSE i \in 1..10 : Digits[i] = c) - 1

RECURSIVE Decimal(_)
Decimal(str) ==
    IF str = <<>> THEN 0
    ELSE 10 * Decimal(SubSeq(str, 1, Len(str) - 1)) + DigitValue(str[Len(str)])

\* line 116: value, err := strconv.ParseFloat(valueStr, 64), for the strings
\* the model sends: a non-empty run of decimal digits parses to its value,
\* anything else is an error.
ParseFloat(str) ==
    IF str # <<>> /\ \A i \in 1..Len(str) : IsDigit(str[i])
    THEN [err |-> FALSE, value |-> Decimal(str)]
    ELSE [err |-> TRUE, value |-> 0]

\* The message bodies the broker delivers: one that is not JSON, and
\* SensorReading objects with these Readings maps.
Malformed == [ok |-> FALSE, readings |-> <<>>]

Reading(readings) == [ok |-> TRUE, readings |-> readings]

Bodies ==
    {Malformed,
     Reading(SensorA :> <<"1">> @@ SensorU :> <<"x">>),
     Reading(SensorA :> <<"2">> @@ SensorB :> <<"1">>)}

\* the process runs until main returns
Running == mpc # "exit"

\* sync.Mutex.Lock (lines 109, 140) returns only when no goroutine holds the
\* mutex.
CanLockMutexUnguarded(mutex) == TRUE

CanLockMutex(mutex) == mutex = NoProc

\* The broker delivers a message; with Qos(1) and manual acknowledgement it
\* sends the next one only when the last one is acknowledged or rejected.
Deliver ==
    /\ Running
    /\ ~chClosed
    /\ ~unacked
    /\ delivered < MaxMsgs
    /\ \E b \in Bodies : msgs' = Append(msgs, [id |-> delivered + 1, body |-> b])
    /\ delivered' = delivered + 1
    /\ unacked' = TRUE
    /\ UNCHANGED <<sensorTrends, heap, trendMutex, pc, add, an, arrived, calls,
                 regVars, mpc, cpc, rpc, chClosed, clock, aggregateMutex,
                 sensorAggregates, con, rep, added, acked>>

\* lines 464-471: for d := range msgs { json.Unmarshal(d.Body, &reading); on
\* error d.Nack(false, false) and continue
ConRecv ==
    /\ Running
    /\ cpc = "recv"
    /\ msgs # <<>>
    /\ msgs' = Tail(msgs)
    /\ IF Head(msgs).body.ok
       THEN /\ cpc' = "agg_lock"
            /\ con' = [con EXCEPT !.d = Head(msgs)]
            /\ UNCHANGED unacked
       ELSE /\ unacked' = IF chClosed THEN unacked ELSE FALSE
            /\ UNCHANGED <<cpc, con>>
    /\ UNCHANGED <<sensorTrends, heap, trendMutex, pc, add, an, arrived, calls,
                 regVars, mpc, rpc, chClosed, delivered, clock,
                 aggregateMutex, sensorAggregates, rep, added, acked>>

\* line 464: the range ends, msgs is closed and drained
ConClosed ==
    /\ Running
    /\ cpc = "recv"
    /\ msgs = <<>>
    /\ chClosed
    /\ cpc' = "send_done"
    /\ UNCHANGED <<sensorTrends, heap, trendMutex, pc, add, an, arrived, calls,
                 regVars, mpc, rpc, msgs, chClosed, unacked, delivered,
                 clock, aggregateMutex, sensorAggregates, con, rep,
                 added, acked>>

\* lines 109-112: aggregateMutex.Lock(); currentTime := time.Now()
AggLock ==
    /\ Running
    /\ cpc = "agg_lock"
    /\ CanLockMutex(aggregateMutex)
    /\ aggregateMutex' = Consumer
    /\ con' = [con EXCEPT !.currentTime = clock, !.todo = DOMAIN con.d.body.readings]
    /\ clock' = clock + 1
    /\ cpc' = "agg_loop"
    /\ UNCHANGED <<sensorTrends, heap, trendMutex, pc, add, an, arrived, calls,
                 regVars, mpc, rpc, msgs, chClosed, unacked, delivered,
                 sensorAggregates, rep, added, acked>>

\* lines 114-125: a reading whose value does not parse, or whose sensor has no
\* limit, is skipped
AggSkip ==
    /\ Running
    /\ cpc = "agg_loop"
    /\ pc[Consumer] = "idle"
    /\ \E s \in con.todo :
          /\ ParseFloat(con.d.body.readings[s]).err \/ s \notin DOMAIN operationalLimits
          /\ con' = [con EXCEPT !.todo = @ \ {s}]
    /\ UNCHANGED <<sensorTrends, heap, trendMutex, pc, add, an, arrived, calls,
                 regVars, mpc, cpc, rpc, msgs, chClosed, unacked, delivered,
                 clock, aggregateMutex, sensorAggregates, rep, added,
                 acked>>

\* lines 127-132
Aggregate(aggregates, s, value) ==
    IF s \in DOMAIN aggregates
    THEN [aggregates EXCEPT ![s] = [Sum |-> @.Sum + value, Count |-> @.Count + 1]]
    ELSE [t \in DOMAIN aggregates \cup {s} |->
             IF t = s THEN [Sum |-> value, Count |-> 1] ELSE aggregates[t]]

\* lines 127-135: the reading is added to its aggregate and AddDataPoint is called
AggAdd ==
    /\ Running
    /\ cpc = "agg_loop"
    /\ pc[Consumer] = "idle"
    /\ \E s \in con.todo :
          LET v == ParseFloat(con.d.body.readings[s]) IN
          /\ ~v.err
          /\ s \in DOMAIN operationalLimits
          /\ sensorAggregates' = Aggregate(sensorAggregates, s, v.value)
          /\ add' = [add EXCEPT ![Consumer] =
                        [sensorName |-> s, value |-> v.value,
                         timestamp |-> con.currentTime, trend |-> 0]]
          /\ con' = [con EXCEPT !.todo = @ \ {s}]
    /\ pc' = [pc EXCEPT ![Consumer] = "add_lock"]
    /\ added' = added \cup {con.d.id}
    /\ UNCHANGED <<sensorTrends, heap, trendMutex, an, arrived, calls, regVars, mpc,
                 cpc, rpc, msgs, chClosed, unacked, delivered, clock,
                 aggregateMutex, rep, acked>>

\* line 110, deferred: aggregateMutex.Unlock()
AggUnlock ==
    /\ Running
    /\ cpc = "agg_loop"
    /\ pc[Consumer] = "idle"
    /\ con.todo = {}
    /\ aggregateMutex' = NoProc
    /\ cpc' = "ack"
    /\ UNCHANGED <<sensorTrends, heap, trendMutex, pc, add, an, arrived, calls,
                 regVars, mpc, rpc, msgs, chClosed, unacked, delivered,
                 clock, sensorAggregates, con, rep, added, acked>>

\* lines 475-478: messageCount++; d.Ack(false), which fails once the channel
\* is closed
ConAck ==
    /\ Running
    /\ cpc = "ack"
    /\ IF chClosed
       THEN UNCHANGED <<unacked, acked>>
       ELSE /\ unacked' = FALSE
            /\ acked' = acked \cup ({con.d.id} \cap added)
    /\ con' = NoCon
    /\ cpc' = "recv"
    /\ UNCHANGED <<sensorTrends, heap, trendMutex, pc, add, an, arrived, calls,
                 regVars, mpc, rpc, msgs, chClosed, delivered, clock,
                 aggregateMutex, sensorAggregates, rep, added>>

\* lines 489-493: SIGINT or SIGTERM arrives, <-sigChan returns and main calls
\* printAverageReport()
MainSignal ==
    /\ mpc = "wait_sig"
    /\ mpc' = "final_report"
    /\ rpc' = [rpc EXCEPT !["main"] = "rep_lock"]
    /\ UNCHANGED <<sensorTrends, heap, trendMutex, pc, add, an, arrived, calls,
                 regVars, cpc, msgs, chClosed, unacked, delivered, clock,
                 aggregateMutex, sensorAggregates, con, rep, added,
                 acked>>

\* line 496: ch.Close(), after the final report has returned
MainClose ==
    /\ mpc = "final_report"
    /\ rpc["main"] = "idle"
    /\ chClosed' = TRUE
    /\ mpc' = "wait_done"
    /\ UNCHANGED <<sensorTrends, heap, trendMutex, pc, add, an, arrived, calls,
                 regVars, cpc, rpc, msgs, unacked, delivered, clock,
                 aggregateMutex, sensorAggregates, con, rep, added,
                 acked>>

\* lines 480, 499-501: done <- true meets <-done; main returns and the process
\* exits, with whatever the other goroutines were doing
Done ==
    /\ mpc = "wait_done"
    /\ cpc = "send_done"
    /\ cpc' = "finished"
    /\ mpc' = "exit"
    /\ UNCHANGED <<sensorTrends, heap, trendMutex, pc, add, an, arrived, calls,
                 regVars, rpc, msgs, chClosed, unacked, delivered, clock,
                 aggregateMutex, sensorAggregates, con, rep, added,
                 acked>>

\* lines 456-457: for range ticker.C { printAverageReport() }
TickerFire ==
    /\ Running
    /\ rpc["ticker"] = "idle"
    /\ rpc' = [rpc EXCEPT !["ticker"] = "rep_lock"]
    /\ UNCHANGED <<sensorTrends, heap, trendMutex, pc, add, an, arrived, calls,
                 regVars, mpc, cpc, msgs, chClosed, unacked, delivered,
                 clock, aggregateMutex, sensorAggregates, con, rep,
                 added, acked>>

(***************************************************************************)
(* printAverageReport(), run by report task t.  Of lines 148-366 the model *)
(* keeps what decides the machines reported and their trends; the counts   *)
(* and labels computed for the printed lines are left out.                 *)
(***************************************************************************)
\* line 140: aggregateMutex.Lock()
RepLock(t) ==
    /\ Running
    /\ rpc[t] = "rep_lock"
    /\ CanLockMutex(aggregateMutex)
    /\ aggregateMutex' = t
    /\ rpc' = [rpc EXCEPT ![t] = "rep_start"]
    /\ UNCHANGED <<sensorTrends, heap, trendMutex, pc, add, an, arrived, calls,
                 regVars, mpc, cpc, msgs, chClosed, unacked, delivered,
                 clock, sensorAggregates, con, rep, added, acked>>

\* lines 164-183: machineStats[machineName].TotalSensors++ for every sensor
\* with an aggregate
MachineStats(aggregates) ==
    LET counted == {s \in DOMAIN aggregates : aggregates[s].Count # 0}
    IN  [m \in {MachineOf(s) : s \in counted} |->
            [TotalSensors |-> Cardinality({s \in counted : MachineOf(s) = m})]]

\* lines 143-237: "No readings to report" and return, or the sensor lines and
\* the machine statistics
RepStart(t) ==
    /\ Running
    /\ rpc[t] = "rep_start"
    /\ IF DOMAIN sensorAggregates = {}
       THEN /\ rpc' = [rpc EXCEPT ![t] = "rep_unlock"]
            /\ UNCHANGED rep
       ELSE /\ rpc' = [rpc EXCEPT ![t] = "rep_machines"]
            /\ rep' = [rep EXCEPT ![t].machineStats = MachineStats(sensorAggregates),
                                  ![t].todo = DOMAIN MachineStats(sensorAggregates)]
    /\ UNCHANGED <<sensorTrends, heap, trendMutex, pc, add, an, arrived, calls,
                 regVars, mpc, cpc, msgs, chClosed, unacked, delivered,
                 clock, aggregateMutex, sensorAggregates, con, added,
                 acked>>

\* lines 281-315: for machineName, stats := range machineStats {
\*   trend := AnalyzeMachineTrends(machineName, stats)
RepCallTrend(t) ==
    /\ Running
    /\ rpc[t] = "rep_machines"
    /\ pc[t] = "idle"
    /\ \E m \in rep[t].todo :
          /\ rep' = [rep EXCEPT ![t].todo = @ \ {m}, ![t].machineName = m]
          /\ an' = [an EXCEPT ![t] = [NoAn EXCEPT !.entry = "machine", !.machineName = m]]
    /\ pc' = [pc EXCEPT ![t] = "amt_rlock"]
    /\ UNCHANGED <<sensorTrends, heap, trendMutex, add, arrived, calls, regVars,
                 mpc, cpc, rpc, msgs, chClosed, unacked, delivered,
                 clock, aggregateMutex, sensorAggregates, con, added,
                 acked>>

\* lines 316-366: the machine's line and its machineStatusJSON entry, with the
\* analytics when trend != nil
RepCollect(t) ==
    /\ Running
    /\ rpc[t] = "rep_machines"
    /\ pc[t] = "amt_ret"
    /\ rep' = [rep EXCEPT ![t].out =
                  [m \in DOMAIN @ \cup {rep[t].machineName} |->
                      IF m = rep[t].machineName THEN an[t].trend ELSE @[m]],
                          ![t].machineName = <<>>]
    /\ an' = [an EXCEPT ![t] = NoAn]
    /\ pc' = [pc EXCEPT ![t] = "idle"]
    /\ UNCHANGED <<sensorTrends, heap, trendMutex, add, arrived, calls, regVars,
                 mpc, cpc, rpc, msgs, chClosed, unacked, delivered,
                 clock, aggregateMutex, sensorAggregates, con, added,
                 acked>>

\* line 366: the range over machineStats is exhausted
RepMachinesDone(t) ==
    /\ Running
    /\ rpc[t] = "rep_machines"
    /\ pc[t] = "idle"
    /\ rep[t].todo = {}
    /\ rpc' = [rpc EXCEPT ![t] = "rep_write"]
    /\ UNCHANGED <<sensorTrends, heap, trendMutex, pc, add, an, arrived, calls,
                 regVars, mpc, cpc, msgs, chClosed, unacked, delivered,
                 clock, aggregateMutex, sensorAggregates, con, rep,
                 added, acked>>

\* lines 368-381: machine_status.json is written and the aggregates are reset
RepWrite(t) ==
    /\ Running
    /\ rpc[t] = "rep_write"
    /\ sensorAggregates' = <<>>
    /\ added' = {}
    /\ acked' = {}
    /\ rpc' = [rpc EXCEPT ![t] = "rep_unlock"]
    /\ UNCHANGED <<sensorTrends, heap, trendMutex, pc, add, an, arrived, calls,
                 regVars, mpc, cpc, msgs, chClosed, unacked, delivered,
                 clock, aggregateMutex, con, rep>>

\* line 141, deferred: aggregateMutex.Unlock(); printAverageReport returns
RepUnlock(t) ==
    /\ Running
    /\ rpc[t] = "rep_unlock"
    /\ aggregateMutex' = NoProc
    /\ rep' = [rep EXCEPT ![t] = NoRep]
    /\ rpc' = [rpc EXCEPT ![t] = "idle"]
    /\ UNCHANGED <<sensorTrends, heap, trendMutex, pc, add, an, arrived, calls,
                 regVars, mpc, cpc, msgs, chClosed, unacked, delivered,
                 clock, sensorAggregates, con, added, acked>>

printAverageReport(t) ==
    \/ RepLock(t)
    \/ RepStart(t)
    \/ RepCallTrend(t)
    \/ RepCollect(t)
    \/ RepMachinesDone(t)
    \/ RepWrite(t)
    \/ RepUnlock(t)

MainNext ==
    \/ Deliver
    \/ ConRecv
    \/ ConClosed
    \/ AggLock
    \/ AggSkip
    \/ AggAdd
    \/ AggUnlock
    \/ ConAck
    \/ MainSignal
    \/ MainClose
    \/ Done
    \/ TickerFire
    \/ \E t \in ReportTasks : printAverageReport(t)
    \/ Running /\ AddDataPoint(Consumer)
    \/ \E t \in ReportTasks : Running /\ AnalyzeSensorTrend(t)
    \/ \E t \in ReportTasks : Running /\ AnalyzeMachineTrends(t)

SpecMain == Init /\ [][MainNext]_vars

(***************************************************************************)
(* SpecReg: CalculateLinearRegression on every pair of sequences of equal  *)
(* length up to MaxRegLen over RegValues.                                  *)
(***************************************************************************)
RegValues == {0, 1, 2}

RegInit ==
    /\ InitEngine
    /\ InitMain
    /\ InitCases
    /\ \E n \in 0..MaxRegLen :
          \E xs \in [1..n -> RegValues], ys \in [1..n -> RegValues] :
             reg = [x |-> xs, y |-> ys, out |-> Nil]

\* slope, intercept, rSquared := CalculateLinearRegression(x, y)
Regress ==
    /\ reg.out = Nil
    /\ reg' = [reg EXCEPT !.out = Ref(CalculateLinearRegression(Floats(reg.x), Floats(reg.y)))]
    /\ UNCHANGED <<engineVars, mainVars, trendCase, machineCase, storeCase>>

RegNext == Regress

SpecReg == RegInit /\ [][RegNext]_vars

(***************************************************************************)
(* SpecTrend: the analysis AnalyzeSensorTrend makes of a window it has     *)
(* read (lines 126-233), on every window of up to MaxTrendLen points with  *)
(* timestamps in TrendTimes, counted in seconds or in thousands of        *)
(* seconds (TrendUnits), values in TrendValues, and every limit of         *)
(* TrendLimits.  Points thousands of seconds apart give slopes inside the  *)
(* STABLE band, points a second apart give steep ones; the value 50 lies   *)
(* far outside the range 0..10; the second limit has OperationalHigh =     *)
(* OperationalLow.                                                         *)
(***************************************************************************)
TrendTimes == {0, 1, 2}

TrendUnits == {1, 1000}

TrendValues == {0, 4, 5, 50}

TrendLimits ==
    {[SensorName |-> SensorA, OperationalHigh |-> 10, OperationalLow |-> 0],
     [SensorName |-> SensorA, OperationalHigh |-> 5, OperationalLow |-> 5]}

\* lines 126-233: nil for fewer than 3 points, the analysis otherwise
AnalysisOf(timestamps, values, limit) ==
    IF InsufficientData(values) THEN Nil
    ELSE Ref(TrendAnalysis(timestamps, values, limit))

TrendInit ==
    /\ InitEngine
    /\ InitMain
    /\ reg = NoReg
    /\ machineCase = NoMachineCase
    /\ storeCase = NoStoreCase
    /\ \E n \in 0..MaxTrendLen :
          \E ts \in [1..n -> TrendTimes], u \in TrendUnits,
             vs \in [1..n -> TrendValues], l \in TrendLimits :
             trendCase = [timestamps |-> [i \in 1..n |-> u * ts[i]], values |-> vs,
                          limit |-> l, done |-> FALSE, out |-> Nil]

\* analysis := AnalyzeSensorTrend(sensorName, limit), on the window drawn
Analyze ==
    /\ ~trendCase.done
    /\ trendCase' = [trendCase EXCEPT
                        !.done = TRUE,
                        !.out = AnalysisOf(trendCase.timestamps, trendCase.values,
                                           trendCase.limit)]
    /\ UNCHANGED <<engineVars, mainVars, reg, machineCase, storeCase>>

TrendNext == Analyze

SpecTrend == TrendInit /\ [][TrendNext]_vars

(***************************************************************************)
(* SpecAgg: the aggregation AnalyzeMachineTrends makes of the qualifying   *)
(* analyses it has collected (lines 263-330), on every sequence of up to   *)
(* MaxSensors analyses out of SampleAnalyses.  The samples carry the       *)
(* fields the aggregation reads.                                           *)
(***************************************************************************)
SampleAnalysis(health, timeToWarning, timeToCritical, confidence) ==
    [HealthScore |-> F(health), TimeToWarning |-> timeToWarning,
     TimeToCritical |-> timeToCritical, Confidence |-> confidence]

SampleAnalyses ==
    {SampleAnalysis(50, 0, 5, "HIGH"),
     SampleAnalysis(90, 599, 0, "MEDIUM"),
     SampleAnalysis(95, 600, MaxInt32, "HIGH"),
     SampleAnalysis(70, 100, 9, "MEDIUM"),
     SampleAnalysis(60, 0, 0, "HIGH")}

\* the i-th sensor of machine G2
SampleSensor(i) == <<"G", "2", ":", "s", Digits[i + 1]>>

AggInit ==
    /\ InitEngine
    /\ InitMain
    /\ reg = NoReg
    /\ trendCase = NoTrendCase
    /\ storeCase = NoStoreCase
    /\ \E n \in 0..MaxSensors :
          \E as \in [1..n -> SampleAnalyses] :
             machineCase =
                [sensorAnalyses |-> [i \in 1..n |->
                                        [sensorName |-> SampleSensor(i), analysis |-> as[i]]],
                 done |-> FALSE, out |-> Nil]

\* lines 263-330 on the analyses drawn
AggregateTrend ==
    /\ ~machineCase.done
    /\ machineCase' = [machineCase EXCEPT
                          !.done = TRUE,
                          !.out = MachineTrend(MachineA, machineCase.sensorAnalyses)]
    /\ UNCHANGED <<engineVars, mainVars, reg, trendCase, storeCase>>

AggNext == AggregateTrend

SpecAgg == AggInit /\ [][AggNext]_vars

(***************************************************************************)
(* SpecStore: AnalyzeMachineTrends("G2", stats) run alone (no concurrent   *)
(* append), first on a store with up to MaxSensors windows of machine G2   *)
(* (pass 1), then on the same store with one more sensor of G2 added       *)
(* (pass 2).  A store is a sequence of [sensorName, timestamps, values];   *)
(* the range of line 244 visits it in some order, and the aggregation does *)
(* not depend on the order.                                                *)
(***************************************************************************)
Window(timestamps, values) == [timestamps |-> timestamps, values |-> values]

\* windows of confidence HIGH, MEDIUM and LOW
StoreWindows ==
    {Window(<<0, 1, 2>>, <<4, 5, 6>>),
     Window(<<0, 1, 2>>, <<5, 4, 4>>),
     Window(<<0, 1, 2>>, <<4, 5, 4>>)}

\* the window of the sensor added: sparse, all timestamps the same, all
\* values the same, or one of the windows above
ExtraWindows ==
    {Window(<<>>, <<>>),
     Window(<<0, 1>>, <<4, 5>>),
     Window(<<1, 1, 1>>, <<4, 5, 6>>),
     Window(<<1, 1, 1>>, <<5, 5, 5>>),
     Window(<<0, 1, 2>>, <<5, 5, 5>>)} \cup StoreWindows

\* every sensor of the store has this row in the limits file
StoreLimit(sensorName) ==
    [SensorName |-> sensorName, OperationalHigh |-> 10, OperationalLow |-> 0]

\* the store made of the windows drawn
StoreOf(windows) ==
    [i \in 1..Len(windows) |->
        [sensorName |-> SampleSensor(i), timestamps |-> windows[i].timestamps,
         values |-> windows[i].values]]

\* the store of the pass that is running
CurrentStore ==
    IF storeCase.pass = 1 THEN StoreOf(storeCase.windows)
    ELSE StoreOf(Append(storeCase.windows, storeCase.extra))

StoreInit ==
    /\ InitEngine
    /\ InitMain
    /\ reg = NoReg
    /\ trendCase = NoTrendCase
    /\ machineCase = NoMachineCase
    /\ \E n \in 0..MaxSensors :
          \E ws \in [1..n -> StoreWindows], x \in ExtraWindows :
             storeCase = [NoStoreCase EXCEPT !.windows = ws, !.extra = x]

\* lines 244-248: the next sensor of the range; a sensor of the machine with
\* a limit is analysed
StoreAnalyze ==
    LET sensor == CurrentStore[storeCase.next] IN
    /\ ~storeCase.done
    /\ ~storeCase.analysed
    /\ storeCase.next <= Len(CurrentStore)
    /\ storeCase' =
          [storeCase EXCEPT
              !.analysed = TRUE,
              !.analysis =
                  IF BelongsTo(sensor.sensorName, MachineA)
                  THEN AnalysisOf(sensor.timestamps, sensor.values,
                                  StoreLimit(sensor.sensorName))
                  ELSE Nil]
    /\ UNCHANGED <<engineVars, mainVars, reg, trendCase, machineCase>>

\* lines 249-257: a qualifying analysis is appended to sensorAnalyses
StoreCollect ==
    /\ storeCase.analysed
    /\ storeCase' =
          [storeCase EXCEPT
              !.analysed = FALSE,
              !.analysis = Nil,
              !.next = @ + 1,
              !.sensorAnalyses =
                  IF Qualifies(storeCase.analysis)
                  THEN Append(@, [sensorName |-> CurrentStore[storeCase.next].sensorName,
                                  analysis |-> storeCase.analysis[1]])
                  ELSE @]
    /\ UNCHANGED <<engineVars, mainVars, reg, trendCase, machineCase>>

\* lines 263-330: the range is exhausted and the trend is aggregated; after
\* pass 1 the sensor is added and pass 2 starts
StoreAggregate ==
    /\ ~storeCase.done
    /\ ~storeCase.analysed
    /\ storeCase.next > Len(CurrentStore)
    /\ storeCase' =
          IF storeCase.pass = 1
          THEN [storeCase EXCEPT
                   !.without = MachineTrend(MachineA, storeCase.sensorAnalyses),
                   !.pass = 2, !.next = 1, !.sensorAnalyses = <<>>]
          ELSE [storeCase EXCEPT
                   !.with = MachineTrend(MachineA, storeCase.sensorAnalyses),
                   !.done = TRUE]
    /\ UNCHANGED <<engineVars, mainVars, reg, trendCase, machineCase>>

StoreNext ==
    \/ StoreAnalyze
    \/ StoreCollect
    \/ StoreAggregate

SpecStore == StoreInit /\ [][StoreNext]_vars

(***************************************************************************)
(* Properties of the window store and of the analyzer under Spec.          *)
(***************************************************************************)
Min(a, b) == IF a < b THEN a ELSE b

LastN(s, n) == SubSeq(s, Len(s) - n + 1, Len(s))

\* the (timestamp, value) pairs of a window
Pairs(timestamps, values) == [i \in 1..Len(values) |-> <<timestamps[i], values[i]>>]

InAddDataPoint == {"add_check", "add_create", "add_load", "add_wlock", "add_wlocking",
                   "add_values", "add_timestamps", "add_cap", "add_evict",
                   "add_wunlock", "add_unlock"}

\* no call for sensor s is between its arrival and its return
Settled(s) == \A p \in Producers : ~(pc[p] \in InAddDataPoint /\ add[p].sensorName = s)

\* C1: after k calls of AddDataPoint for a sensor its window holds exactly the
\* most recent min(k, C) (timestamp, value) pairs, in the order the calls
\* arrived (never reordered by timestamp); a window that no append is working
\* on never holds more than C entries, and an append in progress exceeds C by
\* the one entry it is about to evict.
C1_WindowIsLastArrivals ==
    /\ \A s \in Sensors :
          Settled(s) =>
             IF sensorTrends[s] = 0 THEN arrived[s] = <<>>
             ELSE LET w == heap[sensorTrends[s]] IN
                  /\ Len(w.Timestamps) = Len(w.Values)
                  /\ Pairs(w.Timestamps, w.Values)
                        = LastN(arrived[s], Min(Len(arrived[s]), MaxPoints))
    /\ \A i \in 1..Len(heap) :
          /\ Len(heap[i].Values) <= MaxPoints + 1
          /\ ~heap[i].mutex.held =>
                /\ Len(heap[i].Values) <= MaxPoints
                /\ Len(heap[i].Timestamps) = Len(heap[i].Values)

\* C1 witness: a settled window that has evicted, and holds a later arrival
\* with an earlier timestamp.
C1_Witness ==
    \E s \in Sensors :
       /\ Settled(s)
       /\ sensorTrends[s] # 0
       /\ Len(arrived[s]) > MaxPoints
       /\ LET w == heap[sensorTrends[s]] IN
          /\ Len(w.Values) = MaxPoints
          /\ \E i \in 1..Len(w.Values) - 1 : w.Timestamps[i] > w.Timestamps[i + 1]

\* C2: what AnalyzeSensorTrend reads is a window as it stood between two
\* complete appends: timestamps and values of equal length, entry by entry
\* the same readings, namely the last min(k, C) of the first k arrivals for
\* some k.
C2_SnapshotIsConsistent ==
    \A a \in Analysts :
       pc[a] = "ast_compute" =>
          /\ Len(an[a].timestamps) = Len(an[a].values)
          /\ \E k \in 0..Len(arrived[an[a].sensorName]) :
                Pairs(an[a].timestamps, an[a].values)
                   = LastN(SubSeq(arrived[an[a].sensorName], 1, k), Min(k, MaxPoints))

\* C2 witness: the analyzer has read a full window while a producer that wants
\* to append to that same window waits for the analyzer's read lock.
C2_Witness ==
    \E a \in Analysts, p \in Producers :
       /\ pc[a] = "ast_compute"
       /\ pc[p] = "add_wlocking"
       /\ add[p].trend = an[a].trendData
       /\ Len(an[a].values) = MaxPoints

\* C3: one window object per sensor id, whatever the interleaving: every
\* object ever created is the one the map holds for its sensor (none is
\* replaced), and every point that arrived for a settled sensor is in it (up
\* to the capacity).
C3_OneWindowPerSensor ==
    /\ \A i \in 1..Len(heap) : \E s \in Sensors : sensorTrends[s] = i
    /\ \A s, t \in Sensors : sensorTrends[s] # 0 /\ sensorTrends[s] = sensorTrends[t] => s = t
    /\ \A s \in Sensors :
          Settled(s) /\ arrived[s] # <<>> =>
             /\ sensorTrends[s] # 0
             /\ Len(heap[sensorTrends[s]].Values) = Min(Len(arrived[s]), MaxPoints)

\* C3 witness: two producers are in AddDataPoint for a sensor that has no
\* window yet, one about to create it, the other waiting at the lock.
C3_Witness ==
    \E p, q \in Producers :
       /\ p # q
       /\ pc[p] = "add_create"
       /\ pc[q] = "add_lock"
       /\ add[p].sensorName = add[q].sensorName
       /\ sensorTrends[add[p].sensorName] = 0

\* C4 (as claimed): no state is reached in which a producer and the analysis
\* task wait for each other: the producer, pending writer of trendMutex,
\* waits for the read lock the analysis pass took at line 243 to be released,
\* and the pass waits at the RLock of line 115 for the pending writer.
C4_NoMutualWait ==
    ~ \E p \in Producers, a \in Analysts :
         /\ pc[p] = "add_locking"
         /\ trendMutex.writer = p
         /\ trendMutex.readers > 0
         /\ pc[a] = "ast_rlock"
         /\ an[a].entry = "machine"

\* C7 (as claimed): every sensor whose analysis goes into the trend of a
\* machine has that machine's name before its first ':'.
C7_OnlyOwnSensors ==
    \A a \in Analysts :
       pc[a] = "amt_ret" /\ an[a].trend # Nil =>
          \A s \in an[a].trend[1].sensors : MachineOf(s) = an[a].machineName

\* C9: AnalyzeSensorTrend returns nil when the sensor has no window and when
\* the window holds fewer than 3 points, and an analysis when it holds 3 or
\* more.
C9_AbsentIffTooFewPoints ==
    \A a \in Analysts :
       pc[a] = "ast_ret" =>
          LET t == an[a].trendData IN
          IF t = 0 \/ Len(heap[t].Values) < 3
          THEN an[a].analysis = Nil
          ELSE an[a].analysis # Nil

\* C9 witness: the analyzer returns nil for a window that holds two points.
C9_Witness ==
    \E a \in Analysts :
       /\ pc[a] = "ast_ret"
       /\ an[a].trendData # 0
       /\ Len(heap[an[a].trendData].Values) = 2
       /\ an[a].analysis = Nil

(***************************************************************************)
(* Properties of the regression under SpecReg.                             *)
(***************************************************************************)
AllSame(s) == \A i, j \in 1..Len(s) : s[i] = s[j]

\* C10 (as claimed): for n >= 2 points whose x are all identical the result
\* is slope 0, intercept mean(y), R^2 0; and no result is ever non-finite.
C10_DegenerateFallback ==
    reg.out # Nil =>
       LET r == reg.out[1]
           n == Len(reg.x)
       IN  /\ IsFinite(r.slope) /\ IsFinite(r.intercept) /\ IsFinite(r.rSquared)
           /\ n >= 2 /\ AllSame(reg.x) =>
                 /\ r.slope = F(0)
                 /\ r.intercept = FDiv(FSum(Floats(reg.y)), F(n))
                 /\ r.rSquared = F(0)

(***************************************************************************)
(* Properties of the consumer process under SpecMain.                      *)
(***************************************************************************)
\* what AnalyzeSensorTrend returns for sensor s on the window store as it is
SensorAnalysisNow(s) ==
    IF sensorTrends[s] = 0 THEN Nil
    ELSE LET w == heap[sensorTrends[s]] IN
         IF InsufficientData(w.Values) THEN Nil
         ELSE Ref(TrendAnalysis(w.Timestamps, w.Values, operationalLimits[s]))

\* C5 (as claimed): when the process exits, every reading the consumer added
\* to the aggregates and acknowledged has been in a report; none was accepted
\* after the last report.
C5_ExitAfterAllAcceptedReported ==
    mpc = "exit" => added \cap acked = {}

\* C6 (as claimed): the process never exits while a report pass, started by
\* the ticker or by the shutdown path, is between taking aggregateMutex and
\* returning.
C6_NoExitDuringPass ==
    mpc = "exit" => \A t \in ReportTasks : rpc[t] \in {"idle", "rep_lock"}

\* C8 (as claimed): at the end of every report cycle, every machine with a
\* qualifying sensor in the window store has a MachineTrend in the cycle's
\* output, also when none of its readings arrived during the cycle.
C8_EveryQualifyingMachineReported ==
    \A t \in ReportTasks :
       rpc[t] = "rep_unlock" =>
          \A s \in Sensors :
             Qualifies(SensorAnalysisNow(s)) =>
                /\ MachineOf(s) \in DOMAIN rep[t].out
                /\ rep[t].out[MachineOf(s)] # Nil

(***************************************************************************)
(* Properties of the sensor analysis under SpecTrend.                      *)
(***************************************************************************)
\* the latest value of the window analysed
LatestValue == trendCase.values[Len(trendCase.values)]

\* a non-negative finite number with its fraction dropped
Truncated(q) == q.n \div q.d

\* C11 (as claimed): an analysis with direction STABLE whose latest value is
\* inside [OperationalLow, OperationalHigh] has TimeToCritical 0 (absent),
\* whatever the slope inside the STABLE band.
C11_StableInsideNeverCritical ==
    trendCase.out # Nil =>
       LET a == trendCase.out[1] IN
       /\ a.TrendDirection = "STABLE"
       /\ trendCase.limit.OperationalLow <= LatestValue
       /\ LatestValue <= trendCase.limit.OperationalHigh
       => a.TimeToCritical = 0

\* C12: the health score of every analysis returned is in [0, 100], and it is
\* 100 less the position penalty, less the adverse-trend penalty, plus the
\* stability bonus, clamped once.
C12_HealthScoreClampedOnce ==
    trendCase.out # Nil =>
       LET a == trendCase.out[1]
           low == trendCase.limit.OperationalLow
           high == trendCase.limit.OperationalHigh
           pct == IF high > low THEN Frac((LatestValue - low) * 100, high - low)
                  ELSE F(50)
           position == IF FLt(pct, F(20)) THEN FMul(F(2), FSub(F(20), pct))
                       ELSE IF FGt(pct, F(80)) THEN FMul(F(2), FSub(pct, F(80)))
                       ELSE F(0)
           adverse == IF \/ FGt(a.Slope, F(0)) /\ FGt(pct, F(50))
                         \/ FLt(a.Slope, F(0)) /\ FLt(pct, F(50))
                      THEN FMul(FAbs(a.Slope), F(100))
                      ELSE F(0)
           bonus == IF a.TrendDirection = "STABLE" THEN F(10) ELSE F(0)
           sum == FAdd(FSub(FSub(F(100), position), adverse), bonus)
       IN  /\ IsFinite(a.HealthScore)
           /\ ~FLt(a.HealthScore, F(0))
           /\ ~FGt(a.HealthScore, F(100))
           /\ a.HealthScore = IF FLt(sum, F(0)) THEN F(0)
                              ELSE IF FGt(sum, F(100)) THEN F(100)
                              ELSE sum

\* C12 witness: a STABLE analysis of a value far above the range; the sum is
\* below 0 before the bonus and after it, and the score is 0.
C12_Witness ==
    /\ trendCase.out # Nil
    /\ trendCase.out[1].TrendDirection = "STABLE"
    /\ trendCase.limit.OperationalHigh = 10
    /\ LatestValue = 50
    /\ trendCase.out[1].HealthScore = F(0)

C14_NilIffNoQualifyingSensor ==
    \A a \in Analysts :
       pc[a] = "amt_ret" =>
          LET collected == an[a].sensorAnalyses
              own == {i \in 1..Len(collected) :
                         MachineOf(collected[i].sensorName) = an[a].machineName}
          IN  /\ \A i \in 1..Len(collected) :
                    /\ collected[i].sensorName \in DOMAIN operationalLimits
                    /\ collected[i].analysis.Confidence # "LOW"
              /\ (an[a].trend = Nil) <=> (own = {})

\* the health scores of the analyses drawn, as integers
Healths ==
    [i \in 1..Len(machineCase.sensorAnalyses) |->
        machineCase.sensorAnalyses[i].analysis.HealthScore.n]

\* C15: the overall direction is DEGRADING when more than a third of the
\* qualifying sensors have health < 60, otherwise IMPROVING when more than a
\* third have health > 80, otherwise STABLE; health 50, 90, 95 is IMPROVING.
C15_OverallDirection ==
    machineCase.out # Nil =>
       LET n == Len(Healths)
           degrading == Cardinality({i \in 1..n : Healths[i] < 60})
           improving == Cardinality({i \in 1..n : Healths[i] > 80})
       IN  /\ machineCase.out[1].OverallTrend =
                 IF 3 * degrading > n THEN "DEGRADING"
                 ELSE IF 3 * improving > n THEN "IMPROVING"
                 ELSE "STABLE"
           /\ Healths = <<50, 90, 95>> => machineCase.out[1].OverallTrend = "IMPROVING"

\* C15 witness: both tests are met (health 50 and 90 out of two sensors) and
\* the direction is DEGRADING.
C15_Witness ==
    /\ machineCase.out # Nil
    /\ Healths = <<50, 90>>
    /\ machineCase.out[1].OverallTrend = "DEGRADING"

\* C16 (as claimed): the estimated fail time is the minimum of the positive
\* times to critical of the qualifying sensors, and absent (0) exactly when
\* there is none, whatever their magnitude.
C16_FailTimeIsMinimum ==
    machineCase.out # Nil =>
       LET positive == {machineCase.sensorAnalyses[i].analysis.TimeToCritical :
                           i \in 1..Len(machineCase.sensorAnalyses)} \ {0}
       IN  machineCase.out[1].EstimatedFailTime =
              IF positive = {} THEN 0
              ELSE CHOOSE t \in positive : \A u \in positive : t <= u

(***************************************************************************)
(* Isolation of a sensor's bad data, under SpecStore.                      *)
(***************************************************************************)
Sparse(w) == Len(w.values) < 3

SameTimestamps(w) == \A i, j \in 1..Len(w.timestamps) : w.timestamps[i] = w.timestamps[j]

SameValues(w) == \A i, j \in 1..Len(w.values) : w.values[i] = w.values[j]

\* C17: adding a sensor whose window is sparse (fewer than 3 points) or
\* degenerate (all timestamps the same, or all values the same) leaves the
\* machine's trend as it is computed from the other sensors, in every field;
\* the other sensors are analysed as before.
C17_BadSensorIsolated ==
    storeCase.done /\ (\/ Sparse(storeCase.extra)
                       \/ SameTimestamps(storeCase.extra)
                       \/ SameValues(storeCase.extra))
    => storeCase.with = storeCase.without

\* C17 witness: a machine with a trend, and an added sensor whose three
\* points carry the same timestamp and different values.
C17_Witness ==
    /\ storeCase.done
    /\ storeCase.without # Nil
    /\ Len(storeCase.extra.values) = 3
    /\ SameTimestamps(storeCase.extra)
    /\ ~SameValues(storeCase.extra)
    /\ storeCase.with = storeCase.without

(***************************************************************************)
(* Serialisation by aggregateMutex, under SpecMain.                        *)
(***************************************************************************)
\* the goroutines of the program that are inside a function of the window store
InsideStore == {p \in {Consumer} \cup ReportTasks : pc[p] # "idle"}

\* the report tasks that are inside printAverageReport, past its Lock
InsideReport == {t \in ReportTasks : rpc[t] \notin {"idle", "rep_lock"}}

\* C18: AddDataPoint runs only while addReadingToAggregate holds
\* aggregateMutex and AnalyzeMachineTrends only while printAverageReport holds
\* it, so at most one of the consumer, the ticker task and the shutdown path
\* is inside the window store, an append and a report pass never overlap, and
\* two report passes never run at the same time.
C18_AppendsAndPassesSerialised ==
    /\ Cardinality(InsideStore) <= 1
    /\ Cardinality(InsideReport) <= 1
    /\ \A p \in InsideStore : aggregateMutex = p
    /\ \A t \in InsideReport : aggregateMutex = t
    /\ cpc = "agg_loop" => aggregateMutex = Consumer /\ InsideReport = {}

\* C18 witness: the consumer is inside AddDataPoint while the ticker task and
\* the shutdown path both wait for aggregateMutex.
C18_Witness ==
    /\ pc[Consumer] = "add_values"
    /\ rpc["ticker"] = "rep_lock"
    /\ rpc["main"] = "rep_lock"

====
